---- MODULE Spec2Model ----
(***************************************************************************)
(* A model of QualiSentinel: the Prometheus exposition parser and the      *)
(* HTTP-trace collector of modules/collector.py, the provider switch of    *)
(* modules/analyzer.py and the diagnostic cycle of app.py.                 *)
(*                                                                         *)
(* Representation choices.                                                 *)
(*  - A Python float is a record [k, n, d]: k = "fin" is the rational n/d  *)
(*    in lowest terms (d > 0); k = "nan", "pinf", "ninf" are the IEEE      *)
(*    specials.  The sample values used are small dyadic rationals, on     *)
(*    which binary floating-point addition is exact.                       *)
(*  - A Python str that the code inspects character by character is a      *)
(*    sequence of one-character strings; other strings are atoms.          *)
(*  - A line of the exposition text is the list of its whitespace          *)
(*    separated tokens (what line.split() returns) plus a flag saying that *)
(*    the line starts with '#'.  A token is a name with an optional label  *)
(*    block; float() of a token is ParseFloat.                             *)
(*  - A Python dict that the code iterates is a sequence in insertion      *)
(*    order.                                                               *)
(***************************************************************************)
EXTENDS Integers, Sequences, FiniteSets, TLC

VARIABLES
    pc,          \* position of the diagnostic cycle / of get_prometheus_metrics
    pool,        \* the lines the fetched exposition text is drawn from
    lines,       \* the lines of response.text consumed so far
    metrics,     \* the metrics dict under construction (collector.py 75-89)
    repo_acc,    \* the repository accumulators (collector.py 91)
    exc,         \* the exception that escaped, "none" if none
    report,      \* what the cycle rendered (app.py 47, 80)
    tpc,         \* position of get_httptrace_data
    responses,   \* what each candidate trace endpoint answers
    ep,          \* index of the endpoint being tried
    tresult,     \* return value of get_httptrace_data
    apc,         \* position of the analyzer call
    env,         \* the process environment read by the analyzer
    provider_raises, \* whether the selected provider function raises
    ametrics,    \* the metrics dict handed to the analyzer
    aresult,     \* return value of analyze_metrics
    sresult      \* return value of analyze_metrics_structured

vars == <<pc, pool, lines, metrics, repo_acc, exc, report,
          tpc, responses, ep, tresult,
          apc, env, provider_raises, ametrics, aresult, sresult>>

collectorVars == <<pc, pool, lines, metrics, repo_acc, exc, report>>
traceVars == <<tpc, responses, ep, tresult>>
analyzerVars == <<apc, env, provider_raises, ametrics, aresult, sresult>>

-----------------------------------------------------------------------------
(* Bounds *)

\* Longest exposition text explored, in lines.
MaxLines == 3

-----------------------------------------------------------------------------
(* Python floats *)

Abs(x) == IF x < 0 THEN -x ELSE x

RECURSIVE GCD(_, _)
GCD(a, b) == IF b = 0 THEN a ELSE GCD(b, a % b)

\* The rational n/d in lowest terms with a positive denominator.
Fin(n, d) ==
    LET s == IF d < 0 THEN -1 ELSE 1
        g == GCD(Abs(n), Abs(d))
    IN  [k |-> "fin", n |-> (s * n) \div g, d |-> (s * d) \div g]

NaN == [k |-> "nan", n |-> 0, d |-> 1]
PInf == [k |-> "pinf", n |-> 0, d |-> 1]
NInf == [k |-> "ninf", n |-> 0, d |-> 1]
Zero == Fin(0, 1)

IsFinite(a) == a.k = "fin"

\* a + b on floats.
FAdd(a, b) ==
    CASE a.k = "nan" \/ b.k = "nan" -> NaN
      [] a.k = "pinf" /\ b.k = "ninf" -> NaN
      [] a.k = "ninf" /\ b.k = "pinf" -> NaN
      [] a.k = "pinf" \/ b.k = "pinf" -> PInf
      [] a.k = "ninf" \/ b.k = "ninf" -> NInf
      [] OTHER -> Fin(a.n * b.d + b.n * a.d, a.d * b.d)

\* a < b on floats: every comparison with NaN is False.
FLt(a, b) ==
    CASE a.k = "nan" \/ b.k = "nan" -> FALSE
      [] a.k = "pinf" -> FALSE
      [] b.k = "ninf" -> FALSE
      [] a.k = "ninf" -> TRUE
      [] b.k = "pinf" -> TRUE
      [] OTHER -> a.n * b.d < b.n * a.d

\* a > b on floats.
FGt(a, b) == FLt(b, a)

\* a / b for b > 0 (the only divisors the code uses).
FDiv(a, b) ==
    CASE a.k = "nan" -> NaN
      [] b.k = "pinf" -> IF a.k = "fin" THEN Zero ELSE NaN
      [] a.k = "fin" -> Fin(a.n * b.d, a.d * b.n)
      [] OTHER -> a

\* a * m for a positive integer m.
FScale(a, m) == IF a.k = "fin" THEN Fin(a.n * m, a.d) ELSE a

\* The integer part of a finite float, rounded toward zero.
TruncInt(a) == IF a.n >= 0 THEN a.n \div a.d ELSE -((-a.n) \div a.d)

\* int(value): ValueError on NaN, OverflowError on an infinity.
PyInt(a) ==
    CASE a.k = "nan" -> [err |-> "ValueError", v |-> Zero]
      [] a.k \in {"pinf", "ninf"} -> [err |-> "OverflowError", v |-> Zero]
      [] OTHER -> [err |-> "none", v |-> Fin(TruncInt(a), 1)]

\* bool(value) of a float: only zero is falsy (NaN is truthy).
Truthy(a) == ~(a.k = "fin" /\ a.n = 0)

-----------------------------------------------------------------------------
(* Tokens and lines of the exposition text *)

\* A label pair k="v"; v is the text between the quotes, as characters.
Label(k, v) == [k |-> k, v |-> v]

\* A token name{labels}; braces = FALSE is a token without a label block.
Tok(base, braces, labels) == [base |-> base, braces |-> braces, labels |-> labels]
Bare(base) == Tok(base, FALSE, <<>>)

\* float(token): the numeric literals used, ValueError (ok = FALSE) otherwise.
ParseFloat(tok) ==
    IF tok.braces THEN [ok |-> FALSE, v |-> Zero]
    ELSE CASE tok.base = "0" -> [ok |-> TRUE, v |-> Fin(0, 1)]
           [] tok.base = "1" -> [ok |-> TRUE, v |-> Fin(1, 1)]
           [] tok.base = "2" -> [ok |-> TRUE, v |-> Fin(2, 1)]
           [] tok.base = "6" -> [ok |-> TRUE, v |-> Fin(6, 1)]
           [] tok.base = "0.5" -> [ok |-> TRUE, v |-> Fin(1, 2)]
           [] tok.base = "1.5" -> [ok |-> TRUE, v |-> Fin(3, 2)]
           [] tok.base = "-1.5" -> [ok |-> TRUE, v |-> Fin(-3, 2)]
           [] tok.base = "NaN" -> [ok |-> TRUE, v |-> NaN]
           [] tok.base = "+Inf" -> [ok |-> TRUE, v |-> PInf]
           [] tok.base = "-Inf" -> [ok |-> TRUE, v |-> NInf]
           [] OTHER -> [ok |-> FALSE, v |-> Zero]

\* A line: comment = TRUE when it starts with '#'; toks = line.split().
Line(comment, toks) == [comment |-> comment, toks |-> toks]
Sample(nameTok, valueBase) == Line(FALSE, <<nameTok, Bare(valueBase)>>)

\* 'family' in metric_name: the base names used contain no family but
\* themselves, and the label texts used contain none.
NameContains(tok, family) == tok.base = family

\* 'key="value"' in metric_name (value as characters).
HasLabel(tok, key, value) ==
    tok.braces /\ \E i \in 1..Len(tok.labels) :
        tok.labels[i].k = key /\ tok.labels[i].v = value

-----------------------------------------------------------------------------
(* get_prometheus_metrics: the parser (collector.py 65-183) *)

\* Text constants, as characters.
Unknown == <<"u", "n", "k", "n", "o", "w", "n">>
Blocked == <<"b", "l", "o", "c", "k", "e", "d">>
Runnable == <<"r", "u", "n", "n", "a", "b", "l", "e">>
ErrorLevel == <<"e", "r", "r", "o", "r">>
InfoLevel == <<"i", "n", "f", "o">>

\* The metrics dict as constructed at collector.py 75-89.
InitMetrics ==
    [jvm_memory_used_bytes |-> Zero,
     system_cpu_usage |-> Zero,
     http_server_requests_seconds_count |-> Zero,
     http_server_requests_seconds_max |-> Zero,
     jvm_gc_pause_seconds_count |-> Zero,
     jvm_gc_pause_seconds_sum |-> Zero,
     hikaricp_connections_active |-> Zero,
     hikaricp_connections_pending |-> Zero,
     hikaricp_connections_timeout_total |-> Zero,
     jvm_threads_states_blocked |-> Zero,
     logback_events_error_total |-> Zero,
     repository_timings |-> <<>>]

\* line.startswith('#') or not line.strip()
Skipped(line) == line.comment \/ Len(line.toks) = 0

\* repo_pattern.match(metric_name): the kind, or "" when there is no match.
RepoKind(tok) ==
    IF ~tok.braces THEN ""
    ELSE CASE tok.base = "spring_data_repository_invocations_seconds_sum" -> "sum"
           [] tok.base = "spring_data_repository_invocations_seconds_count" -> "count"
           [] tok.base = "spring_data_repository_invocations_seconds_max" -> "max"
           [] OTHER -> ""

\* labels.get(key) on the dict built at collector.py 109-113: the value of the
\* last pair with that key, <<>> (falsy, like None) when there is none.
RECURSIVE LabelGet(_, _)
LabelGet(labels, key) ==
    IF Len(labels) = 0 THEN <<>>
    ELSE IF labels[Len(labels)].k = key THEN labels[Len(labels)].v
         ELSE LabelGet(SubSeq(labels, 1, Len(labels) - 1), key)

\* a or b on strings
StrOr(a, b) == IF Len(a) > 0 THEN a ELSE b

RepoOf(tok) ==
    StrOr(LabelGet(tok.labels, "repository"), StrOr(LabelGet(tok.labels, "repo"), Unknown))
MethodOf(tok) == StrOr(LabelGet(tok.labels, "method"), Unknown)

\* key = f"{repo}:{method}"
RepoKey(repo, method) == repo \o <<":">> \o method

\* Index of the entry with this key in repo_acc, 0 when there is none.
IndexOfKey(acc, key) ==
    IF \E i \in 1..Len(acc) : acc[i].key = key
    THEN CHOOSE i \in 1..Len(acc) : acc[i].key = key
    ELSE 0

\* repo_acc.setdefault(key, {...}): the dict with the entry present.
SetDefault(acc, key, repo, method) ==
    IF IndexOfKey(acc, key) # 0 THEN acc
    ELSE Append(acc, [key |-> key, repository |-> repo, method |-> method,
                      sum |-> Zero, count |-> Zero, max |-> Zero])

\* collector.py 124-129: fold one sample into its entry.
UpdateEntry(entry, kind, value) ==
    CASE kind = "sum" -> [entry EXCEPT !.sum = FAdd(@, value)]
      [] kind = "count" -> [entry EXCEPT !.count = FAdd(@, value)]
      [] kind = "max" /\ FGt(value, entry.max) -> [entry EXCEPT !.max = value]
      [] OTHER -> entry

\* collector.py 106-131: a repository line.
RepoLine(acc, tok, kind, value) ==
    LET repo == RepoOf(tok)
        method == MethodOf(tok)
        key == RepoKey(repo, method)
        acc1 == SetDefault(acc, key, repo, method)
        i == IndexOfKey(acc1, key)
    IN  [acc1 EXCEPT ![i] = UpdateEntry(@, kind, value)]

\* A variant of AddFloat that assigns instead of accumulating.
AddFloatOverwrites(m, field, value) == [m EXCEPT ![field] = value]

\* metrics[field] += value
AddFloat(m, field, value) == [m EXCEPT ![field] = FAdd(@, value)]

\* A variant of SetLast that keeps the first sample: it assigns only while
\* the field still holds its initial zero.
SetLastKeepsFirst(m, field, value) ==
    IF m[field] = Zero THEN [m EXCEPT ![field] = value] ELSE m

\* metrics[field] = value
SetLast(m, field, value) == [m EXCEPT ![field] = value]

\* The family a non-repository name is routed to by the elif chain
\* (collector.py 134-157), "" when no branch takes it.  The max branch also
\* tests the value, so a max line that does not raise the maximum falls
\* through to the branches below it, none of which it matches.
Family(tok) ==
    CASE NameContains(tok, "jvm_memory_used_bytes") -> "jvm_memory_used_bytes"
      [] NameContains(tok, "system_cpu_usage") -> "system_cpu_usage"
      [] NameContains(tok, "http_server_requests_seconds_count") ->
            "http_server_requests_seconds_count"
      [] NameContains(tok, "http_server_requests_seconds_max") ->
            "http_server_requests_seconds_max"
      [] NameContains(tok, "jvm_gc_pause_seconds_count") -> "jvm_gc_pause_seconds_count"
      [] NameContains(tok, "jvm_gc_pause_seconds_sum") -> "jvm_gc_pause_seconds_sum"
      [] NameContains(tok, "hikaricp_connections_active") -> "hikaricp_connections_active"
      [] NameContains(tok, "hikaricp_connections_pending") -> "hikaricp_connections_pending"
      [] NameContains(tok, "hikaricp_connections_timeout_total") ->
            "hikaricp_connections_timeout_total"
      [] NameContains(tok, "jvm_threads_states_threads")
            /\ HasLabel(tok, "state", Blocked) -> "jvm_threads_states_blocked"
      [] NameContains(tok, "logback_events_total")
            /\ HasLabel(tok, "level", ErrorLevel) -> "logback_events_error_total"
      [] OTHER -> ""

FloatAdditive == {"jvm_memory_used_bytes", "jvm_gc_pause_seconds_sum"}
IntAdditive == {"http_server_requests_seconds_count", "jvm_gc_pause_seconds_count",
                "hikaricp_connections_timeout_total", "logback_events_error_total"}
LastWins == {"system_cpu_usage", "hikaricp_connections_active",
             "hikaricp_connections_pending", "jvm_threads_states_blocked"}

\* metrics[field] += int(value): the outcome [m, err].
AddInt(m, field, value) ==
    LET i == PyInt(value)
    IN  IF i.err = "none" THEN [m |-> [m EXCEPT ![field] = FAdd(@, i.v)], err |-> "none"]
        ELSE [m |-> m, err |-> i.err]

\* A variant of ScalarLine whose running-maximum branch lacks the comparison
\* with the current maximum.
ScalarLineMaxOverwrites(m, tok, value) ==
    LET f == Family(tok)
    IN  CASE f \in FloatAdditive -> [m |-> AddFloat(m, f, value), err |-> "none"]
          [] f \in LastWins -> [m |-> SetLast(m, f, value), err |-> "none"]
          [] f \in IntAdditive -> AddInt(m, f, value)
          [] f = "http_server_requests_seconds_max" ->
                [m |-> SetLast(m, f, value), err |-> "none"]
          [] OTHER -> [m |-> m, err |-> "none"]

\* collector.py 134-157: a non-repository line; the outcome [m, err].
ScalarLine(m, tok, value) ==
    LET f == Family(tok)
    IN  CASE f \in FloatAdditive -> [m |-> AddFloat(m, f, value), err |-> "none"]
          [] f \in LastWins -> [m |-> SetLast(m, f, value), err |-> "none"]
          [] f \in IntAdditive -> AddInt(m, f, value)
          [] f = "http_server_requests_seconds_max" ->
                [m |-> IF FGt(value, m[f]) THEN SetLast(m, f, value) ELSE m,
                 err |-> "none"]
          [] OTHER -> [m |-> m, err |-> "none"]

\* One iteration of the loop at collector.py 95-160 on the parser state
\* st = [metrics, repo_acc]: the new state and the exception that escapes the
\* except (ValueError, IndexError) clause, "none" if none does.
ProcessLine(st, line) ==
    IF Skipped(line) THEN [metrics |-> st.metrics, repo_acc |-> st.repo_acc, exc |-> "none"]
    ELSE
      LET tok == line.toks[1]
          parsed == ParseFloat(line.toks[Len(line.toks)])
          kind == RepoKind(tok)
          scalar == ScalarLine(st.metrics, tok, parsed.v)
      IN  CASE ~parsed.ok ->
                  [metrics |-> st.metrics, repo_acc |-> st.repo_acc, exc |-> "none"]
            [] parsed.ok /\ kind # "" ->
                  [metrics |-> st.metrics,
                   repo_acc |-> RepoLine(st.repo_acc, tok, kind, parsed.v),
                   exc |-> "none"]
            [] OTHER ->
                  [metrics |-> scalar.m, repo_acc |-> st.repo_acc,
                   exc |-> IF scalar.err \in {"none", "ValueError", "IndexError"}
                           THEN "none" ELSE scalar.err]

\* The parser state after the whole loop over `text`, stopping at the first
\* line whose exception escapes.
RECURSIVE ParseLines(_, _)
ParseLines(st, text) ==
    IF Len(text) = 0 \/ st.exc # "none" THEN st
    ELSE ParseLines(ProcessLine(st, Head(text)), Tail(text))

InitParser == [metrics |-> InitMetrics, repo_acc |-> <<>>, exc |-> "none"]

-----------------------------------------------------------------------------
(* list.sort(key=..., reverse=True) as CPython runs it on a list shorter     *)
(* than 64 elements: reverse, count the leading run, binary insertion sort,  *)
(* reverse.  Keys are floats compared with <.                                *)

Reverse(s) == [i \in 1..Len(s) |-> s[Len(s) + 1 - i]]

\* Length of the run that starts the list: strictly descending when the
\* second key is below the first, non-descending otherwise.
RECURSIVE RunEnd(_, _, _)
RunEnd(keys, i, descending) ==
    IF i > Len(keys) THEN Len(keys)
    ELSE IF FLt(keys[i], keys[i - 1]) = descending
         THEN RunEnd(keys, i + 1, descending)
         ELSE i - 1

CountRun(keys) ==
    IF Len(keys) < 2 THEN [n |-> Len(keys), descending |-> FALSE]
    ELSE LET d == FLt(keys[2], keys[1])
         IN  [n |-> RunEnd(keys, 3, d), descending |-> d]

\* The binary search of binarysort: where the pivot goes in s[l+1 .. r].
\* The elements are pairs [key, item], the key computed beforehand.
RECURSIVE Bisect(_, _, _, _)
Bisect(s, pivot, l, r) ==
    IF l >= r THEN l
    ELSE LET p == l + ((r - l) \div 2)
         IN  IF FLt(pivot.key, s[p + 1].key)
             THEN Bisect(s, pivot, l, p)
             ELSE Bisect(s, pivot, p + 1, r)

\* binarysort from position start (0-based) on.
RECURSIVE BinarySort(_, _)
BinarySort(s, start) ==
    IF start >= Len(s) THEN s
    ELSE LET pivot == s[start + 1]
             l == Bisect(s, pivot, 0, start)
             moved == SubSeq(s, 1, l) \o <<pivot>> \o SubSeq(s, l + 1, start)
                      \o SubSeq(s, start + 2, Len(s))
         IN  BinarySort(moved, start + 1)

\* list.sort on pairs [key, item].
ListSort(s, reverse) ==
    LET s0 == IF reverse THEN Reverse(s) ELSE s
        run == CountRun([i \in 1..Len(s0) |-> s0[i].key])
        s1 == IF run.descending
              THEN Reverse(SubSeq(s0, 1, run.n)) \o SubSeq(s0, run.n + 1, Len(s0))
              ELSE s0
        s2 == BinarySort(s1, run.n)
    IN  IF reverse THEN Reverse(s2) ELSE s2

-----------------------------------------------------------------------------
(* Finalisation of repository_timings (collector.py 163-178) *)

\* count = entry['count'] or 0.0
CountOf(entry) == IF Truthy(entry.count) THEN entry.count ELSE Zero

\* avg = entry['sum'] / count if count > 0 else 0.0
AvgOf(entry) ==
    IF FGt(CountOf(entry), Zero) THEN FDiv(entry.sum, CountOf(entry)) ELSE Zero

\* The record appended at collector.py 168-175 (when int(count) returns).
TimingOf(entry) ==
    [repository |-> entry.repository,
     method |-> entry.method,
     total_time_seconds |-> entry.sum,
     invocations |-> PyInt(CountOf(entry)).v,
     avg_time_seconds |-> AvgOf(entry),
     max_time_seconds |-> entry.max]

TotalTime(r) == r.total_time_seconds

\* The exception int(count) raises on the first entry where it does.
FinalizeError(acc) ==
    IF \E i \in 1..Len(acc) : PyInt(CountOf(acc[i])).err # "none"
    THEN LET i == CHOOSE j \in 1..Len(acc) :
                    /\ PyInt(CountOf(acc[j])).err # "none"
                    /\ \A h \in 1..(j - 1) : PyInt(CountOf(acc[h])).err = "none"
         IN  PyInt(CountOf(acc[i])).err
    ELSE "none"

\* repo_list.sort(key=lambda r: r['total_time_seconds'], reverse=True)
SortTimings(repo_list) ==
    LET keyed == [i \in 1..Len(repo_list) |->
                    [key |-> TotalTime(repo_list[i]), item |-> repo_list[i]]]
        sorted == ListSort(keyed, TRUE)
    IN  [i \in 1..Len(sorted) |-> sorted[i].item]

\* collector.py 163-180: the returned dict, or the exception that escapes
\* (the enclosing try only catches requests' RequestException).
Finalize(st) ==
    IF Len(st.repo_acc) = 0 THEN [metrics |-> st.metrics, exc |-> "none"]
    ELSE IF FinalizeError(st.repo_acc) # "none"
         THEN [metrics |-> st.metrics, exc |-> FinalizeError(st.repo_acc)]
         ELSE [metrics |-> [st.metrics EXCEPT !.repository_timings =
                              SortTimings([i \in 1..Len(st.repo_acc) |->
                                             TimingOf(st.repo_acc[i])])],
               exc |-> "none"]

\* get_prometheus_metrics on a fetched text (collector.py 93-180): the
\* returned dict, or the exception that escapes.
ParseText(text) ==
    LET st == ParseLines(InitParser, text)
    IN  IF st.exc # "none" THEN [metrics |-> st.metrics, exc |-> st.exc]
        ELSE Finalize(st)

-----------------------------------------------------------------------------
(* The exposition lines explored *)

RepoA == <<"A">>
RepoB == <<"B">>
RepoC == <<"C">>
MethodM == <<"m">>

\* name{repository="<repo>",method="m"}
RepoTok(base, repo) ==
    Tok(base, TRUE, <<Label("repository", repo), Label("method", MethodM)>>)
SumTok(repo) == RepoTok("spring_data_repository_invocations_seconds_sum", repo)
CountTok(repo) == RepoTok("spring_data_repository_invocations_seconds_count", repo)
MaxTok(repo) == RepoTok("spring_data_repository_invocations_seconds_max", repo)

ThreadsTok(state) == Tok("jvm_threads_states_threads", TRUE, <<Label("state", state)>>)
LogbackTok(level) == Tok("logback_events_total", TRUE, <<Label("level", level)>>)

\* Additive families, with malformed lines among them.
AdditiveLines ==
    {Sample(Bare("jvm_memory_used_bytes"), "0.5"),
     Sample(Bare("jvm_memory_used_bytes"), "2"),
     Sample(Bare("jvm_memory_used_bytes"), "abc"),
     Sample(Bare("http_server_requests_seconds_count"), "1.5"),
     Sample(Bare("http_server_requests_seconds_count"), "NaN"),
     Sample(Bare("http_server_requests_seconds_count"), "+Inf"),
     Sample(Bare("jvm_gc_pause_seconds_count"), "2"),
     Sample(Bare("jvm_gc_pause_seconds_sum"), "1.5"),
     Sample(Bare("hikaricp_connections_timeout_total"), "-1.5"),
     Sample(LogbackTok(ErrorLevel), "0.5"),
     Sample(LogbackTok(InfoLevel), "2"),
     Line(FALSE, <<Bare("not_a_metric")>>)}

\* Last-sample-wins families and the running maximum.
GaugeLines ==
    {Sample(Bare("system_cpu_usage"), "0.5"),
     Sample(Bare("system_cpu_usage"), "1"),
     Sample(Bare("system_cpu_usage"), "oops"),
     Sample(ThreadsTok(Blocked), "6"),
     Sample(ThreadsTok(Blocked), "NaN"),
     Sample(ThreadsTok(Runnable), "2"),
     Sample(Bare("hikaricp_connections_active"), "2"),
     Sample(Bare("hikaricp_connections_pending"), "1"),
     Sample(Bare("hikaricp_connections_pending"), "0"),
     Sample(Bare("http_server_requests_seconds_max"), "1.5"),
     Sample(Bare("http_server_requests_seconds_max"), "0.5"),
     Line(TRUE, <<Bare("#"), Bare("HELP")>>),
     Line(FALSE, <<>>)}

\* The repository-timing family.
RepoLines ==
    {Sample(SumTok(RepoA), "1"),
     Sample(SumTok(RepoB), "1"),
     Sample(SumTok(RepoB), "NaN"),
     Sample(SumTok(RepoC), "2"),
     Sample(CountTok(RepoA), "2"),
     Sample(CountTok(RepoA), "0.5"),
     Sample(CountTok(RepoB), "1.5"),
     Sample(CountTok(RepoC), "NaN"),
     Sample(CountTok(RepoC), "+Inf"),
     Sample(MaxTok(RepoA), "1.5"),
     Sample(MaxTok(RepoA), "0.5"),
     Sample(Tok("spring_data_repository_invocations_seconds_sum", TRUE,
                <<Label("repo", RepoB)>>), "0.5")}

\* Repository-timing lines whose label values contain a colon.
PairTok(base, repo, method) ==
    Tok(base, TRUE, <<Label("repository", repo), Label("method", method)>>)

ColonLines ==
    {Sample(PairTok("spring_data_repository_invocations_seconds_sum",
                    <<"A", ":", "b">>, <<"c">>), "1"),
     Sample(PairTok("spring_data_repository_invocations_seconds_sum",
                    <<"A">>, <<"b", ":", "c">>), "2"),
     Sample(PairTok("spring_data_repository_invocations_seconds_count",
                    <<"A", ":", "b">>, <<"c">>), "2"),
     Sample(PairTok("spring_data_repository_invocations_seconds_count",
                    <<"A">>, <<"b", ":", "c">>), "1"),
     Sample(PairTok("spring_data_repository_invocations_seconds_max",
                    <<"A">>, <<"b", ":", "c">>), "1.5"),
     Sample(PairTok("spring_data_repository_invocations_seconds_max",
                    <<"A", ":", "b">>, <<"c">>), "0.5")}

Pools == {AdditiveLines, GaugeLines, RepoLines, ColonLines}

-----------------------------------------------------------------------------
(* Rendered text *)

\* A text is a sequence of parts [sec, who, val]: sec names the part, who is
\* a provider name (characters) and val a rendered number where the part has
\* one.
NoVal == [k |-> "none", neg |-> FALSE, scaled |-> 0, digits |-> 0]
NA == [k |-> "N/A", neg |-> FALSE, scaled |-> 0, digits |-> 0]
Part(sec) == [sec |-> sec, who |-> <<>>, val |-> NoVal]
ValPart(sec, val) == [sec |-> sec, who |-> <<>>, val |-> val]
WhoPart(sec, who) == [sec |-> sec, who |-> who, val |-> NoVal]

-----------------------------------------------------------------------------
(* The diagnostic cycle (app.py 45-80) and get_prometheus_metrics *)
\* st.error("Nao foi possivel coletar as metricas. ...") (app.py 47)
ErrorMessage == <<Part("error_message")>>

\* Positional parameters of analyze_metrics, and arguments app.py passes.
AnalyzeParams == 1
AppCallArgs == 2

ParserState == [metrics |-> metrics, repo_acc |-> repo_acc, exc |-> "none"]

\* collector.py 71-72 raise a RequestException: the function returns None.
FetchFail ==
    /\ pc = "start"
    /\ pc' = "fetch_failed"
    /\ UNCHANGED <<pool, lines, metrics, repo_acc, exc, report>>

\* collector.py 71-93: the fetch succeeds, the parse starts.
FetchOk ==
    /\ pc = "start"
    /\ pc' = "parsing"
    /\ UNCHANGED <<pool, lines, metrics, repo_acc, exc, report>>

\* collector.py 95-160: the next line of the text.
ParseLine ==
    /\ pc = "parsing"
    /\ Len(lines) < MaxLines
    /\ \E line \in pool :
        LET st == ProcessLine(ParserState, line)
        IN  /\ lines' = Append(lines, line)
            /\ metrics' = st.metrics
            /\ repo_acc' = st.repo_acc
            /\ exc' = st.exc
            /\ pc' = IF st.exc = "none" THEN "parsing" ELSE "parse_raised"
    /\ UNCHANGED <<pool, report>>

\* collector.py 163-180: the text is exhausted.
EndOfText ==
    /\ pc = "parsing"
    /\ LET fin == Finalize(ParserState)
       IN  /\ metrics' = fin.metrics
           /\ exc' = fin.exc
           /\ pc' = IF fin.exc = "none" THEN "returned" ELSE "parse_raised"
    /\ UNCHANGED <<pool, lines, repo_acc, report>>

\* app.py 46-48: prometheus_data is None.
AppStop ==
    /\ pc = "fetch_failed"
    /\ report' = ErrorMessage
    /\ pc' = "stopped"
    /\ UNCHANGED <<pool, lines, metrics, repo_acc, exc>>

\* app.py 54-62: the dashboard; int() of the two gauges may raise.
DashboardError(m) ==
    IF PyInt(m.jvm_threads_states_blocked).err # "none"
    THEN PyInt(m.jvm_threads_states_blocked).err
    ELSE PyInt(m.hikaricp_connections_pending).err

AppDashboard ==
    /\ pc = "returned"
    /\ exc' = DashboardError(metrics)
    /\ pc' = IF DashboardError(metrics) = "none" THEN "dashboard" ELSE "app_raised"
    /\ UNCHANGED <<pool, lines, metrics, repo_acc, report>>

-----------------------------------------------------------------------------
(* modules/analyzer.py: prompt rendering and the provider switch *)

\* n/d rounded to the nearest integer, ties to even (d > 0).
RoundHalfEven(n, d) ==
    LET q == n \div d
        r == n % d
    IN  CASE 2 * r < d -> q
          [] 2 * r > d -> q + 1
          [] OTHER -> IF q % 2 = 0 THEN q ELSE q + 1

Pow10(digits) == IF digits = 2 THEN 100 ELSE IF digits = 4 THEN 10000 ELSE 1

\* f"{a:.<digits>f}": the rounded magnitude in units of 10^-digits and the sign.
FormatFixed(a, digits) ==
    IF a.k # "fin" THEN [k |-> a.k, neg |-> FALSE, scaled |-> 0, digits |-> digits]
    ELSE [k |-> "fin", neg |-> a.n < 0,
          scaled |-> RoundHalfEven(Abs(a.n) * Pow10(digits), a.d), digits |-> digits]

\* f"{a:.2%}"
FormatPercent(a) == FormatFixed(FScale(a, 100), 2)

\* f"{(float(a) / 1024 / 1024):.2f} MB"
FormatMegabytes(a) == FormatFixed(FDiv(a, Fin(1048576, 1)), 2)

\* f"{a}" for an int
FormatInt(a) ==
    IF a.k # "fin" THEN [k |-> a.k, neg |-> FALSE, scaled |-> 0, digits |-> 0]
    ELSE [k |-> "fin", neg |-> a.n < 0, scaled |-> Abs(a.n), digits |-> 0]

\* metrics.get(key) is not None
HasKey(m, key) == key \in DOMAIN m

\* _build_base_prompt (analyzer.py 27-67)
BuildBasePrompt(m) ==
    LET system_cpu_fmt == IF HasKey(m, "system_cpu_usage")
                          THEN FormatPercent(m.system_cpu_usage) ELSE NA
        jvm_mem_fmt == IF HasKey(m, "jvm_memory_used_bytes")
                          /\ Truthy(m.jvm_memory_used_bytes)
                       THEN FormatMegabytes(m.jvm_memory_used_bytes)
                       ELSE FormatMegabytes(Zero)
        total_http == IF HasKey(m, "http_server_requests_seconds_count")
                      THEN FormatInt(m.http_server_requests_seconds_count) ELSE NA
        http_max_fmt == IF HasKey(m, "http_server_requests_seconds_max")
                        THEN FormatFixed(m.http_server_requests_seconds_max, 4) ELSE NA
    IN  <<Part("prompt_header"), Part("prompt_context"),
          ValPart("cpu", system_cpu_fmt), ValPart("jvm_memory", jvm_mem_fmt),
          ValPart("http_total", total_http), ValPart("http_max", http_max_fmt),
          Part("prompt_footer")>>

\* _generate_prompt_for_manual_analysis (analyzer.py 70-73)
GeneratePromptForManualAnalysis(m) == BuildBasePrompt(m)

Gemini == <<"g", "e", "m", "i", "n", "i">>
OpenAI == <<"o", "p", "e", "n", "a", "i">>
Mock == <<"m", "o", "c", "k">>
Auto == <<"a", "u", "t", "o">>

\* The keys of _PROVIDERS (analyzer.py 132-136)
Providers == {Gemini, OpenAI, Mock}

\* _run_with_gemini / _run_with_openai / _run_with_mock (analyzer.py 80-127):
\* the stub text, the prompt, and the provider's name; raises = TRUE stands
\* for the SDK call the stub is a placeholder for failing.
RunProvider(provider, m, raises) ==
    IF raises THEN [ok |-> FALSE, content |-> <<>>, used |-> <<>>]
    ELSE [ok |-> TRUE,
          content |-> <<WhoPart("stub", provider), Part("prompt_base_label")>>
                      \o BuildBasePrompt(m),
          used |-> provider]

\* str.strip() and str.lower() on characters.
IsSpace(c) == c \in {" ", "\t"}

RECURSIVE LStrip(_)
LStrip(str) ==
    IF Len(str) > 0 /\ IsSpace(Head(str)) THEN LStrip(Tail(str)) ELSE str

Strip(str) == Reverse(LStrip(Reverse(LStrip(str))))

LowerChar(c) ==
    CASE c = "A" -> "a" [] c = "E" -> "e" [] c = "G" -> "g" [] c = "I" -> "i"
      [] c = "K" -> "k" [] c = "M" -> "m" [] c = "N" -> "n" [] c = "O" -> "o"
      [] c = "P" -> "p" [] c = "T" -> "t" [] c = "U" -> "u" [] c = "C" -> "c"
      [] OTHER -> c

Lower(str) == [i \in 1..Len(str) |-> LowerChar(str[i])]

\* os.getenv(name): [set, v]; an unset variable reads as None (falsy).
Unset == [set |-> FALSE, v |-> <<>>]
EnvVal(str) == [set |-> TRUE, v |-> str]
EnvTruthy(x) == x.set /\ Len(x.v) > 0

\* _select_provider (analyzer.py 139-150): the name, <<>> for None.
SelectProvider(e) ==
    LET explicit == Lower(Strip(IF EnvTruthy(e.AI_PROVIDER) THEN e.AI_PROVIDER.v ELSE Auto))
    IN  CASE explicit # Auto -> explicit
          [] explicit = Auto /\ EnvTruthy(e.GEMINI_API_KEY) -> Gemini
          [] explicit = Auto /\ ~EnvTruthy(e.GEMINI_API_KEY)
                /\ EnvTruthy(e.OPENAI_API_KEY) -> OpenAI
          [] OTHER -> <<>>

\* _has_key_for (analyzer.py 153-160)
HasKeyFor(e, provider) ==
    CASE provider = Gemini -> EnvTruthy(e.GEMINI_API_KEY)
      [] provider = OpenAI -> EnvTruthy(e.OPENAI_API_KEY)
      [] provider = Mock -> TRUE
      [] OTHER -> FALSE

\* A variant of CatchProviderError without the except clause: the provider's
\* exception leaves analyze_metrics.
CatchProviderErrorPropagates(m) == [exc |-> "Exception", value |-> <<>>]

\* What the try/except of analyze_metrics does with a provider failure.
CatchProviderError(m) == [exc |-> "none", value |-> GeneratePromptForManualAnalysis(m)]

\* analyze_metrics (analyzer.py 163-188): [exc, value].
AnalyzeMetrics(m, e, raises) ==
    LET provider == SelectProvider(e)
        run == RunProvider(provider, m, raises)
    IN  CASE Len(provider) = 0 \/ ~HasKeyFor(e, provider) ->
                [exc |-> "none", value |-> GeneratePromptForManualAnalysis(m)]
          [] Len(provider) > 0 /\ HasKeyFor(e, provider) /\ provider \notin Providers ->
                [exc |-> "none", value |-> GeneratePromptForManualAnalysis(m)]
          [] OTHER ->
                IF run.ok
                THEN [exc |-> "none",
                      value |-> <<WhoPart("provider_tag", run.used)>> \o run.content]
                ELSE CatchProviderError(m)

ManualPrompt(m, error) ==
    [mode |-> "manual_prompt", provider |-> <<>>, error |-> error,
     content |-> GeneratePromptForManualAnalysis(m)]

\* analyze_metrics_structured (analyzer.py 194-219): [exc, value].
AnalyzeMetricsStructured(m, e, raises) ==
    LET provider == SelectProvider(e)
        run == RunProvider(provider, m, raises)
    IN  CASE Len(provider) = 0 \/ ~HasKeyFor(e, provider) ->
                [exc |-> "none", value |-> ManualPrompt(m, FALSE)]
          [] Len(provider) > 0 /\ HasKeyFor(e, provider) /\ provider \notin Providers ->
                [exc |-> "none", value |-> ManualPrompt(m, FALSE)]
          [] OTHER ->
                IF run.ok
                THEN [exc |-> "none",
                      value |-> [mode |-> "ai", provider |-> run.used, error |-> FALSE,
                                 content |-> run.content]]
                ELSE [exc |-> "none", value |-> ManualPrompt(m, TRUE)]

\* app.py 79-80: analyze_metrics(prometheus_data, management_url) and the
\* rendering of its result.  The call passes AppCallArgs positional arguments
\* to a function of AnalyzeParams parameters.
AppAnalyze ==
    /\ pc = "dashboard"
    /\ IF AppCallArgs # AnalyzeParams
       THEN /\ exc' = "TypeError"
            /\ pc' = "app_raised"
            /\ UNCHANGED report
       ELSE LET r == AnalyzeMetrics(metrics, env, provider_raises)
            IN  /\ exc' = r.exc
                /\ report' = r.value
                /\ pc' = IF r.exc = "none" THEN "rendered" ELSE "app_raised"
    /\ UNCHANGED <<pool, lines, metrics, repo_acc>>

-----------------------------------------------------------------------------
(* get_httptrace_data (collector.py 5-62) *)

\* JSON values and Python's None, as records of one shape.
JList(items) == [type |-> "list", items |-> items, keys |-> <<>>, vals |-> <<>>]
JScalar(type) == [type |-> type, items |-> <<>>, keys |-> <<>>, vals |-> <<>>]
\* An object: keys[i] maps to vals[i], a list or a scalar.
JDict(keys, vals) == [type |-> "dict", items |-> <<>>, keys |-> keys, vals |-> vals]
PyNone == JScalar("None")
EmptyList == JList(<<>>)

\* What one endpoint answers: a connection error, or a status with a body.
ConnError == [kind |-> "conn_error", status |-> 0, json_ok |-> FALSE, body |-> PyNone]
Http(status, json_ok, body) ==
    [kind |-> "http", status |-> status, json_ok |-> json_ok, body |-> body]

\* endpoints = ["/actuator/httptrace", "/actuator/http-trace"]
NumEndpoints == 2

\* key in data
InDict(data, key) == \E i \in 1..Len(data.keys) : data.keys[i] = key
\* data[key]
DictAt(data, key) == data.vals[CHOOSE i \in 1..Len(data.keys) : data.keys[i] = key]

\* The first of 'content', 'items', 'values' that holds a list, 0 if none.
HeuristicKeys == <<"content", "items", "values">>
FirstListKey(data) ==
    IF \E i \in 1..3 : InDict(data, HeuristicKeys[i])
                       /\ DictAt(data, HeuristicKeys[i]).type = "list"
    THEN CHOOSE i \in 1..3 :
            /\ InDict(data, HeuristicKeys[i])
            /\ DictAt(data, HeuristicKeys[i]).type = "list"
            /\ \A j \in 1..(i - 1) : ~(InDict(data, HeuristicKeys[j])
                                       /\ DictAt(data, HeuristicKeys[j]).type = "list")
    ELSE 0

\* collector.py 48-62: the value returned for a decoded JSON body.
ExtractTraces(data) ==
    CASE data.type = "dict" /\ InDict(data, "traces") -> DictAt(data, "traces")
      [] data.type = "list" -> data
      [] data.type = "dict" /\ ~InDict(data, "traces") /\ FirstListKey(data) # 0 ->
            DictAt(data, HeuristicKeys[FirstListKey(data)])
      [] OTHER -> EmptyList

\* What the loop body does with the answer of one endpoint (collector.py
\* 20-62): "continue" to the next endpoint, or return a value.
EndpointOutcome(r) ==
    CASE r.kind = "conn_error" -> [next |-> "return", value |-> PyNone]
      [] r.kind = "http" /\ r.status = 404 -> [next |-> "continue", value |-> PyNone]
      [] r.kind = "http" /\ r.status # 404 /\ r.status >= 400 ->
            [next |-> "return", value |-> PyNone]
      [] r.kind = "http" /\ r.status < 400 /\ ~r.json_ok ->
            [next |-> "return", value |-> PyNone]
      [] OTHER -> [next |-> "return", value |-> ExtractTraces(r.body)]

\* The value of a call whose for loop ends without a return statement.
LoopExhausted == PyNone

\* One iteration of the loop over endpoints.
TryEndpoint ==
    /\ tpc = "trying"
    /\ ep <= NumEndpoints
    /\ LET out == EndpointOutcome(responses[ep])
       IN  IF out.next = "continue"
           THEN /\ ep' = ep + 1
                /\ UNCHANGED <<tpc, tresult>>
           ELSE /\ tresult' = out.value
                /\ tpc' = "done"
                /\ UNCHANGED ep
    /\ UNCHANGED responses

\* Every endpoint answered 404: the function ends after the loop.
ExhaustEndpoints ==
    /\ tpc = "trying"
    /\ ep > NumEndpoints
    /\ tresult' = LoopExhausted
    /\ tpc' = "done"
    /\ UNCHANGED <<ep, responses>>

Traces1 == JList(<<"t1">>)
Traces2 == JList(<<"t1", "t2">>)

Bodies ==
    {Traces2, EmptyList,
     JDict(<<"traces">>, <<Traces1>>),
     JDict(<<"traces">>, <<JScalar("str")>>),
     JDict(<<"traces", "content">>, <<JScalar("null"), Traces2>>),
     JDict(<<"content">>, <<Traces1>>),
     JDict(<<"items">>, <<Traces2>>),
     JDict(<<"values">>, <<Traces1>>),
     JDict(<<"content", "values">>, <<JScalar("str"), Traces2>>),
     JDict(<<"other">>, <<Traces1>>),
     JScalar("str")}

Answers ==
    {ConnError, Http(404, FALSE, PyNone), Http(500, FALSE, PyNone),
     Http(200, FALSE, PyNone)}
    \cup {Http(200, TRUE, b) : b \in Bodies}

-----------------------------------------------------------------------------
(* Calls of the analyzer *)

CallAnalyzeMetrics ==
    /\ apc = "ready"
    /\ LET r == AnalyzeMetrics(ametrics, env, provider_raises)
       IN  /\ aresult' = r.value
           /\ apc' = IF r.exc = "none" THEN "plain_returned" ELSE "raised"
    /\ UNCHANGED <<env, provider_raises, ametrics, sresult>>

CallAnalyzeStructured ==
    /\ apc = "plain_returned"
    /\ LET r == AnalyzeMetricsStructured(ametrics, env, provider_raises)
       IN  /\ sresult' = r.value
           /\ apc' = IF r.exc = "none" THEN "done" ELSE "raised"
    /\ UNCHANGED <<env, provider_raises, ametrics, aresult>>

\* Values of AI_PROVIDER explored.
ProviderSettings ==
    {Unset, EnvVal(<<>>), EnvVal(Auto), EnvVal(<<" ", "A", "U", "T", "O">>),
     EnvVal(Gemini), EnvVal(<<" ", "G", "e", "m", "i", "n", "i", " ">>),
     EnvVal(OpenAI), EnvVal(Mock), EnvVal(<<"c", "o", "p", "i", "l", "o", "t">>)}

\* Values of an API key explored.
KeySettings == {Unset, EnvVal(<<>>), EnvVal(<<"k">>)}

Envs == [AI_PROVIDER : ProviderSettings, GEMINI_API_KEY : KeySettings,
         OPENAI_API_KEY : KeySettings]

NoEnv == [AI_PROVIDER |-> Unset, GEMINI_API_KEY |-> Unset, OPENAI_API_KEY |-> Unset]

\* Snapshots handed to the analyzer: every combination of the signals below
\* on top of the zero snapshot, and the empty dict.
OneTiming ==
    <<[repository |-> RepoA, method |-> MethodM, total_time_seconds |-> Fin(1, 1),
       invocations |-> Fin(2, 1), avg_time_seconds |-> Fin(1, 2),
       max_time_seconds |-> Fin(3, 2)]>>

Snapshots ==
    {[InitMetrics EXCEPT !.jvm_gc_pause_seconds_sum = g,
                         !.hikaricp_connections_pending = p,
                         !.jvm_threads_states_blocked = b,
                         !.repository_timings = t,
                         !.system_cpu_usage = Fin(1, 8)] :
        g \in {Zero, Fin(1, 1), Fin(3, 2)}, p \in {Zero, Fin(1, 1)},
        b \in {Zero, Fin(5, 1), Fin(6, 1)}, t \in {<<>>, OneTiming}}
    \cup {InitMetrics, <<>>}

-----------------------------------------------------------------------------
(* Specifications *)

CollectorIdle ==
    /\ pc = "idle" /\ pool = {} /\ lines = <<>> /\ metrics = InitMetrics
    /\ repo_acc = <<>> /\ exc = "none" /\ report = <<>>

TraceIdle ==
    /\ tpc = "idle" /\ responses = <<>> /\ ep = 1 /\ tresult = PyNone

AnalyzerIdle ==
    /\ apc = "idle" /\ env = NoEnv /\ provider_raises = FALSE
    /\ ametrics = InitMetrics /\ aresult = <<>> /\ sresult = ManualPrompt(<<>>, FALSE)

\* The diagnostic cycle, from the call of get_prometheus_metrics on.
Init ==
    /\ pc = "start"
    /\ pool \in Pools
    /\ lines = <<>>
    /\ metrics = InitMetrics
    /\ repo_acc = <<>>
    /\ exc = "none"
    /\ report = <<>>
    /\ TraceIdle
    /\ AnalyzerIdle

Next ==
    \/ (FetchFail /\ UNCHANGED traceVars /\ UNCHANGED analyzerVars)
    \/ (FetchOk /\ UNCHANGED traceVars /\ UNCHANGED analyzerVars)
    \/ (ParseLine /\ UNCHANGED traceVars /\ UNCHANGED analyzerVars)
    \/ (EndOfText /\ UNCHANGED traceVars /\ UNCHANGED analyzerVars)
    \/ (AppStop /\ UNCHANGED traceVars /\ UNCHANGED analyzerVars)
    \/ (AppDashboard /\ UNCHANGED traceVars /\ UNCHANGED analyzerVars)
    \/ (AppAnalyze /\ UNCHANGED traceVars /\ UNCHANGED analyzerVars)

Spec == Init /\ [][Next]_vars

\* A call of get_httptrace_data against every pair of endpoint answers.
InitTrace ==
    /\ CollectorIdle
    /\ AnalyzerIdle
    /\ tpc = "trying"
    /\ responses \in [1..NumEndpoints -> Answers]
    /\ ep = 1
    /\ tresult = PyNone

NextTrace ==
    \/ (TryEndpoint /\ UNCHANGED collectorVars /\ UNCHANGED analyzerVars)
    \/ (ExhaustEndpoints /\ UNCHANGED collectorVars /\ UNCHANGED analyzerVars)

SpecTrace == InitTrace /\ [][NextTrace]_vars

\* A call of analyze_metrics and of analyze_metrics_structured in every
\* environment, on every snapshot, with the provider returning or raising.
InitAnalyze ==
    /\ CollectorIdle
    /\ TraceIdle
    /\ apc = "ready"
    /\ env \in Envs
    /\ provider_raises \in BOOLEAN
    /\ ametrics \in Snapshots
    /\ aresult = <<>>
    /\ sresult = ManualPrompt(<<>>, FALSE)

NextAnalyze ==
    \/ (CallAnalyzeMetrics /\ UNCHANGED collectorVars /\ UNCHANGED traceVars)
    \/ (CallAnalyzeStructured /\ UNCHANGED collectorVars /\ UNCHANGED traceVars)

SpecAnalyze == InitAnalyze /\ [][NextAnalyze]_vars

-----------------------------------------------------------------------------
(* Properties of the exposition parser *)

ValueTok(line) == line.toks[Len(line.toks)]

\* The line is a sample with a numeric value.
ValidSample(line) == ~Skipped(line) /\ ParseFloat(ValueTok(line)).ok
ValueOf(line) == ParseFloat(ValueTok(line)).v

\* The line is neither a comment nor blank, and has no numeric last token.
Malformed(line) == ~Skipped(line) /\ ~ParseFloat(ValueTok(line)).ok

\* The line names the repository-timing family.
IsRepoLine(line) ==
    /\ ~Skipped(line)
    /\ line.toks[1].braces
    /\ line.toks[1].base \in {"spring_data_repository_invocations_seconds_sum",
                              "spring_data_repository_invocations_seconds_count",
                              "spring_data_repository_invocations_seconds_max"}

\* The line is a numeric sample of the metric family behind `field`.
MatchesField(line, field) ==
    /\ ValidSample(line)
    /\ ~IsRepoLine(line)
    /\ CASE field = "jvm_threads_states_blocked" ->
                /\ line.toks[1].base = "jvm_threads_states_threads"
                /\ HasLabel(line.toks[1], "state", Blocked)
         [] field = "logback_events_error_total" ->
                /\ line.toks[1].base = "logback_events_total"
                /\ HasLabel(line.toks[1], "level", ErrorLevel)
         [] OTHER -> line.toks[1].base = field

AdditiveFields ==
    {"jvm_memory_used_bytes", "http_server_requests_seconds_count",
     "jvm_gc_pause_seconds_count", "jvm_gc_pause_seconds_sum",
     "hikaricp_connections_timeout_total", "logback_events_error_total"}
FloatFields == {"jvm_memory_used_bytes", "jvm_gc_pause_seconds_sum"}
CounterFields == AdditiveFields \ FloatFields
LastWinsFields ==
    {"system_cpu_usage", "jvm_threads_states_blocked",
     "hikaricp_connections_active", "hikaricp_connections_pending"}

\* The sum of the sample values of the lines of `text` matching `field`.
RECURSIVE ExactSum(_, _)
ExactSum(text, field) ==
    IF Len(text) = 0 THEN Zero
    ELSE LET rest == ExactSum(SubSeq(text, 1, Len(text) - 1), field)
             last == text[Len(text)]
         IN  IF MatchesField(last, field) THEN FAdd(rest, ValueOf(last)) ELSE rest

\* The same sum with every sample truncated toward zero to an integer; a
\* sample that is not finite contributes nothing.
RECURSIVE TruncatedSum(_, _)
TruncatedSum(text, field) ==
    IF Len(text) = 0 THEN Zero
    ELSE LET rest == TruncatedSum(SubSeq(text, 1, Len(text) - 1), field)
             last == text[Len(text)]
         IN  IF MatchesField(last, field) /\ IsFinite(ValueOf(last))
             THEN FAdd(rest, Fin(TruncInt(ValueOf(last)), 1))
             ELSE rest

\* The value of the last line of `text` matching `field`, zero if none does.
RECURSIVE LastValue(_, _)
LastValue(text, field) ==
    IF Len(text) = 0 THEN Zero
    ELSE IF MatchesField(text[Len(text)], field) THEN ValueOf(text[Len(text)])
         ELSE LastValue(SubSeq(text, 1, Len(text) - 1), field)

Parsed == pc \in {"parsing", "returned"}

\* C1: get_prometheus_metrics returns a snapshot for every fetched text,
\* never raising, and a line that cannot be tokenized or whose value is not
\* numeric leaves the snapshot and the repository accumulators as they were.
C1_ParserNeverRaises ==
    /\ pc # "parse_raised"
    /\ pc = "parsing" =>
          \A line \in pool : Malformed(line) => ProcessLine(ParserState, line) = ParserState

\* C2 as stated: every additive field is the exact sum of the sample values
\* of the lines matching its family, non-integer values included.
C2_AdditiveExactSum ==
    Parsed => \A f \in AdditiveFields : metrics[f] = ExactSum(lines, f)

\* C2 as amended: the two float fields are the exact sum of the matching
\* samples; the four counter fields are the sum of the matching samples each
\* truncated toward zero to an integer, NaN samples contributing nothing.
C2_AdditiveTruncatedSum ==
    Parsed =>
        /\ \A f \in FloatFields : metrics[f] = ExactSum(lines, f)
        /\ \A f \in CounterFields : metrics[f] = TruncatedSum(lines, f)

\* A returned snapshot whose memory field is 0.5 + 2 and whose request
\* counter holds 1 for the sample 1.5.
C2_Witness ==
    /\ pc = "returned"
    /\ lines = <<Sample(Bare("jvm_memory_used_bytes"), "0.5"),
                 Sample(Bare("http_server_requests_seconds_count"), "1.5"),
                 Sample(Bare("jvm_memory_used_bytes"), "2")>>
    /\ metrics.jvm_memory_used_bytes = Fin(5, 2)
    /\ metrics.http_server_requests_seconds_count = Fin(1, 1)

\* The rearrangements of `text` that leave every repository line where it is.
Shuffles(text) ==
    LET n == Len(text)
        perms == {p \in [1..n -> 1..n] :
                    /\ \A i, j \in 1..n : p[i] = p[j] => i = j
                    /\ \A i \in 1..n : IsRepoLine(text[i]) => p[i] = i
                    /\ \A i \in 1..n : IsRepoLine(text[p[i]]) => p[i] = i}
    IN  {[i \in 1..n |-> text[p[i]]] : p \in perms}

\* C3 as stated: permuting the non-repository lines of a text leaves every
\* field of the snapshot unchanged.
C3_ShuffleKeepsSnapshot ==
    pc = "returned" =>
        \A text \in Shuffles(lines) : ParseText(text) = [metrics |-> metrics, exc |-> "none"]

OrderFreeFields ==
    AdditiveFields \cup {"http_server_requests_seconds_max", "repository_timings"}

\* C3 as amended: permuting the non-repository lines leaves the additive
\* fields, the running maximum and repository_timings unchanged (the
\* last-sample-wins fields follow the new order).
C3_ShuffleKeepsOrderFreeFields ==
    pc = "returned" =>
        \A text \in Shuffles(lines) :
            LET shuffled == ParseText(text)
            IN  /\ shuffled.exc = "none"
                /\ [f \in OrderFreeFields |-> shuffled.metrics[f]]
                      = [f \in OrderFreeFields |-> metrics[f]]

\* A returned snapshot of a text with two maximum samples in falling order
\* and a gauge sample, which has rearrangements.
C3_Witness ==
    /\ pc = "returned"
    /\ lines = <<Sample(Bare("http_server_requests_seconds_max"), "1.5"),
                 Sample(Bare("http_server_requests_seconds_max"), "0.5"),
                 Sample(Bare("system_cpu_usage"), "1")>>
    /\ metrics.http_server_requests_seconds_max = Fin(3, 2)
    /\ Cardinality(Shuffles(lines)) = 6

\* C4: every last-sample-wins field holds the value of the last line, in
\* file order, that is a sample of its family, and zero when there is none.
C4_LastSampleWins ==
    Parsed => \A f \in LastWinsFields : metrics[f] = LastValue(lines, f)

\* A returned snapshot where two CPU samples were followed by a malformed
\* one: the field holds the second.
C4_Witness ==
    /\ pc = "returned"
    /\ lines = <<Sample(Bare("system_cpu_usage"), "0.5"),
                 Sample(Bare("system_cpu_usage"), "1"),
                 Sample(Bare("system_cpu_usage"), "oops")>>
    /\ metrics.system_cpu_usage = Fin(1, 1)

-----------------------------------------------------------------------------
(* Properties of repository_timings *)

Timings == metrics.repository_timings

\* Position of a record's (repository, method) key in first-seen order.
FirstSeen(r) == IndexOfKey(repo_acc, RepoKey(r.repository, r.method))

\* C5: in every record, avg_time_seconds is total_time_seconds divided by
\* the reported invocations when that is positive, and 0 when it is 0.
C5_AverageIsTotalOverInvocations ==
    pc = "returned" =>
        \A i \in 1..Len(Timings) :
            /\ FGt(Timings[i].invocations, Zero) =>
                  Timings[i].avg_time_seconds =
                      FDiv(Timings[i].total_time_seconds, Timings[i].invocations)
            /\ Timings[i].invocations = Zero => Timings[i].avg_time_seconds = Zero

\* C6: repository_timings is in descending order of total_time_seconds, and
\* records with equal totals are in first-seen order of their keys.
C6_SortedDescendingStable ==
    pc = "returned" =>
        \A i, j \in 1..Len(Timings) :
            i < j =>
                /\ ~FLt(Timings[i].total_time_seconds, Timings[j].total_time_seconds)
                /\ Timings[i].total_time_seconds = Timings[j].total_time_seconds
                      => FirstSeen(Timings[i]) < FirstSeen(Timings[j])

-----------------------------------------------------------------------------
(* Properties of get_httptrace_data *)

\* The first endpoint that does not answer 404, 0 when every one does.
FirstAnswering ==
    IF \A i \in 1..NumEndpoints : responses[i].kind = "http" /\ responses[i].status = 404
    THEN 0
    ELSE CHOOSE i \in 1..NumEndpoints :
            /\ ~(responses[i].kind = "http" /\ responses[i].status = 404)
            /\ \A j \in 1..(i - 1) : responses[j].kind = "http" /\ responses[j].status = 404

\* C7: when every endpoint answers 404 the call returns the empty list, when
\* a connection error occurs it returns None, and the two differ.
C7_AbsenceIsNotFailure ==
    tpc = "done" =>
        /\ FirstAnswering = 0 => tresult = EmptyList
        /\ (FirstAnswering # 0 /\ responses[FirstAnswering].kind = "conn_error")
              => tresult = PyNone
        /\ EmptyList # PyNone

-----------------------------------------------------------------------------
(* Properties of the analyzer *)

Selected == SelectProvider(env)

\* The selected provider needs a credential that the environment lacks.
LacksCredential ==
    \/ Selected = Gemini /\ ~EnvTruthy(env.GEMINI_API_KEY)
    \/ Selected = OpenAI /\ ~EnvTruthy(env.OPENAI_API_KEY)

\* The cases in which the composer must fall back to the local prompt.
MustFallBack ==
    \/ Len(Selected) = 0
    \/ LacksCredential
    \/ Selected \notin {Gemini, OpenAI, Mock}
    \/ provider_raises

\* The output of the selected provider when its call succeeds.
ProviderOutput == RunProvider(Selected, ametrics, FALSE).content

\* C8: analyze_metrics and analyze_metrics_structured never raise; when no
\* provider is selected, the selected one has no credential or is unknown, or
\* its call raises, the content is exactly the locally rendered prompt;
\* otherwise it is the provider's output, tagged with the provider's name.
C8_FallbackIsUnconditional ==
    /\ apc # "raised"
    /\ apc \in {"plain_returned", "done"} =>
          aresult = IF MustFallBack THEN BuildBasePrompt(ametrics)
                    ELSE <<WhoPart("provider_tag", Selected)>> \o ProviderOutput
    /\ apc = "done" =>
          IF MustFallBack
          THEN /\ sresult.mode = "manual_prompt"
               /\ sresult.provider = <<>>
               /\ sresult.content = BuildBasePrompt(ametrics)
          ELSE /\ sresult.mode = "ai"
               /\ sresult.provider = Selected
               /\ sresult.content = ProviderOutput

\* Both calls returned the local prompt after the mock provider, selected
\* by name, raised.
C8_Witness ==
    /\ apc = "done"
    /\ provider_raises
    /\ Selected = Mock
    /\ aresult = BuildBasePrompt(ametrics)
    /\ sresult.content = BuildBasePrompt(ametrics)
    /\ sresult.error

\* The findings a text contains, by rule identity and in order.
FindingNames == {"memory_pressure", "data_access", "thread_contention", "no_findings"}
IsFinding(p) == p.sec \in FindingNames
Findings(text) ==
    LET found == SelectSeq(text, IsFinding)
    IN  [i \in 1..Len(found) |-> found[i].sec]

\* The findings the rules call for on a snapshot, in rule order.
ExpectedFindings(m) ==
    LET memory == IF FGt(m.jvm_gc_pause_seconds_sum, Fin(1, 1))
                  THEN <<"memory_pressure">> ELSE <<>>
        data == IF FGt(m.hikaricp_connections_pending, Zero)
                   \/ Len(m.repository_timings) > 0
                THEN <<"data_access">> ELSE <<>>
        threads == IF FGt(m.jvm_threads_states_blocked, Fin(5, 1))
                   THEN <<"thread_contention">> ELSE <<>>
        fired == memory \o data \o threads
    IN  IF Len(fired) = 0 THEN <<"no_findings">> ELSE fired

\* C10: the diagnosis of a snapshot holds the memory-pressure, data-access
\* and thread-contention findings exactly when their rules fire, in that
\* order, and the no-findings fallback exactly when none does.
C10_RulesDecideFindings ==
    (apc \in {"plain_returned", "done"} /\ HasKey(ametrics, "jvm_gc_pause_seconds_sum"))
        => Findings(aresult) = ExpectedFindings(ametrics)

-----------------------------------------------------------------------------
(* Properties of the diagnostic cycle *)

\* C9: a failed metrics fetch ends the cycle with the error message and no
\* analysis; after a successful fetch nothing aborts the cycle before the
\* report is rendered.
C9_CycleEndsWithReport ==
    /\ pc = "stopped" => (report = ErrorMessage /\ lines = <<>>)
    /\ pc \notin {"parse_raised", "app_raised"}
    /\ pc = "rendered" => Len(report) > 0

-----------------------------------------------------------------------------
(* Properties of the repository aggregation *)

\* The line is a numeric sample of the repository-timing family.
RepoSample(line) == IsRepoLine(line) /\ ValidSample(line)

\* The (repository, method) pair a repository line carries, an absent or
\* empty label read as "unknown".
PairOf(line) == <<RepoOf(line.toks[1]), MethodOf(line.toks[1])>>

\* The sample kind named by a repository line.
KindOf(line) == RepoKind(line.toks[1])

\* The distinct pairs occurring in a text.
PairsIn(text) ==
    {PairOf(text[i]) : i \in {j \in 1..Len(text) : RepoSample(text[j])}}

\* The sum of the samples of one kind that a text holds for a pair.
RECURSIVE PairSum(_, _, _)
PairSum(text, pair, kind) ==
    IF Len(text) = 0 THEN Zero
    ELSE LET rest == PairSum(SubSeq(text, 1, Len(text) - 1), pair, kind)
             last == text[Len(text)]
         IN  IF RepoSample(last) /\ PairOf(last) = pair /\ KindOf(last) = kind
             THEN FAdd(rest, ValueOf(last)) ELSE rest

\* The running maximum, from zero, of the max samples a text holds for a pair.
RECURSIVE PairMax(_, _)
PairMax(text, pair) ==
    IF Len(text) = 0 THEN Zero
    ELSE LET rest == PairMax(SubSeq(text, 1, Len(text) - 1), pair)
             last == text[Len(text)]
         IN  IF RepoSample(last) /\ PairOf(last) = pair /\ KindOf(last) = "max"
                /\ FGt(ValueOf(last), rest)
             THEN ValueOf(last) ELSE rest

\* The aggregates of a snapshot, as a set (order and average left out).
Aggregates(m) ==
    {[repository |-> m.repository_timings[i].repository,
      method |-> m.repository_timings[i].method,
      total |-> m.repository_timings[i].total_time_seconds,
      invocations |-> m.repository_timings[i].invocations,
      max |-> m.repository_timings[i].max_time_seconds] :
        i \in 1..Len(m.repository_timings)}

\* Every arrival order of the lines of a text.
Orders(text) ==
    LET n == Len(text)
    IN  {[i \in 1..n |-> text[p[i]]] :
            p \in {q \in [1..n -> 1..n] : \A i, j \in 1..n : q[i] = q[j] => i = j}}

\* C11: repository_timings holds exactly one record per distinct
\* (repository, method) pair of the text, carrying the sum of the pair's sum
\* samples, the (integer part of the) sum of its count samples and the
\* maximum of its max samples; two pairs are never merged into one record,
\* and the aggregates are the same for every arrival order of the lines.
C11_OneRecordPerPair ==
    pc = "returned" =>
        /\ Len(Timings) = Cardinality(PairsIn(lines))
        /\ \A pair \in PairsIn(lines) :
              \E i \in 1..Len(Timings) :
                  /\ Timings[i].repository = pair[1]
                  /\ Timings[i].method = pair[2]
                  /\ Timings[i].total_time_seconds = PairSum(lines, pair, "sum")
                  /\ Timings[i].invocations = PyInt(PairSum(lines, pair, "count")).v
                  /\ Timings[i].max_time_seconds = PairMax(lines, pair)
        /\ \A text \in Orders(lines) : Aggregates(ParseText(text).metrics) = Aggregates(metrics)

\* The same without the lines whose labels contain a colon: the property
\* the code does have.
C11_HoldsWithoutColons ==
    (pc = "returned" /\ pool # ColonLines) => C11_OneRecordPerPair

-----------------------------------------------------------------------------
(* Properties of the trace payload normalisation *)

\* The value the contract of the normalisation calls for on a decoded body.
ExpectedTraces(body) ==
    CASE body.type = "list" -> body
      [] body.type = "dict" /\ InDict(body, "traces") ->
            IF DictAt(body, "traces").type = "list" THEN DictAt(body, "traces")
            ELSE EmptyList
      [] body.type = "dict" /\ ~InDict(body, "traces") /\ FirstListKey(body) # 0 ->
            DictAt(body, HeuristicKeys[FirstListKey(body)])
      [] OTHER -> EmptyList

\* C12: for a JSON body returned with a success status the call returns a
\* sequence: the body when it is a list, the list under traces, the list
\* under the first of content/items/values, and the empty sequence for every
\* other shape, an object whose traces value is not a list included.
C12_NormalisedToSequence ==
    (tpc = "done" /\ FirstAnswering # 0
        /\ responses[FirstAnswering].kind = "http"
        /\ responses[FirstAnswering].status < 400
        /\ responses[FirstAnswering].json_ok)
      => /\ tresult.type = "list"
         /\ tresult = ExpectedTraces(responses[FirstAnswering].body)

\* The same for the bodies that have no traces key holding a non-list: the
\* property the code does have.
C12_HoldsForListTraces ==
    (tpc = "done" /\ FirstAnswering # 0
        /\ responses[FirstAnswering].kind = "http"
        /\ responses[FirstAnswering].status < 400
        /\ responses[FirstAnswering].json_ok
        /\ ~(InDict(responses[FirstAnswering].body, "traces")
             /\ DictAt(responses[FirstAnswering].body, "traces").type # "list"))
      => C12_NormalisedToSequence

====
